---- MODULE Spec2Model ----
(***************************************************************************)
(* Model of the DailyMed crawler (src/crawler_fixed.py): the crawl loop,   *)
(* fetch with retries, the audit log, the content store and the frontier   *)
(* snapshot, together with the web site the crawler talks to; and of the   *)
(* TF-IDF indexer (src/indexer_old.py) with the search engine that ranks   *)
(* its documents (src/search_engine_old.py).                               *)
(***************************************************************************)
EXTENDS Integers, Sequences, FiniteSets, TLC

(***************************************************************************)
(* Bounds of the model.                                                    *)
(***************************************************************************)
\* top-level crawl() invocations explored in one behaviour
MaxCrawls == 2
\* failed HTTP requests the site may answer in one behaviour
MaxFailures == 3
\* the period of the periodic snapshot (page_count % 100 in the source), scaled
\* down so that a periodic snapshot falls within the pages of the model
SnapshotEvery == 2
\* the max_pages argument the caller passes to crawl() (main passes 20), scaled
\* down so that the site of the model has more pages than the caller allows
MaxPagesArg == 2
\* documents added to the index in one behaviour, by add_document or as rows
\* of a file given to load_from_tsv
MaxAdds == 2

(***************************************************************************)
(* Program constants.                                                      *)
(***************************************************************************)
max_retries == 3
max_pages == 2000000
BatchSize == 2000
MaxNameLen == 200
SnippetLen == 200
DefaultTopK == 10

(***************************************************************************)
(* URLs.  A URL is its host and the token sequence of its path+query; the  *)
(* tokens stand for runs of characters ("/" and "." are themselves).       *)
(***************************************************************************)
BaseHost == "dailymed.nlm.nih.gov"
Url(h, p) == [host |-> h, path |-> p]

P1 == Url(BaseHost, <<"/", "a">>)
P2 == Url(BaseHost, <<"/", "b">>)
\* a second address of the site that differs from P2 in its trailing slash
P3 == Url(BaseHost, <<"/", "b", "/">>)
Pages == {P1, P2, P3}
MediaUrl == Url(BaseHost, <<"/", "logo", ".", "png">>)
ExternalUrl == Url("example.org", <<"/", "a">>)

\* hyperlink targets as they stand in a page: scheme, host, path and fragment
Href(s, u, f) == [scheme |-> s, host |-> u.host, path |-> u.path, frag |-> f]
NoisyHrefs ==
    { Href("https", P2, "top"), Href("https", MediaUrl, ""),
      Href("https", ExternalUrl, ""), Href("mailto", P3, ""),
      Href("https", Url(BaseHost, <<>>), "frag") }

\* results of fetch: None, or the body of a response
None == [kind |-> "none", hrefs |-> {}]
EmptyBody == [kind |-> "empty", hrefs |-> {}]
Page(L) == [kind |-> "page", hrefs |-> L]
Unknown == [kind |-> "unknown", hrefs |-> {}]
\* the pages of the model link to nothing, to P1, to P2 and P3, or carry NoisyHrefs
LinkSets == {{}, {P1}, {P2, P3}}
Bodies ==
    {EmptyBody} \cup {Page({Href("https", u, "") : u \in L}) : L \in LinkSets}
                \cup {Page(NoisyHrefs)}
\* crawl's start_url: main passes none, so it is base_url
Seeds == {P1}

VARIABLES
    visited,        \* self.visited
    page_count,     \* self.page_count
    to_visit,       \* crawl's local queue
    pc,             \* position of the crawler: idle, loop, fetching, fetched, done, aborted
    current_url,    \* crawl's local current_url / fetch's url
    attempt,        \* fetch's loop variable
    html,           \* what fetch returned to crawl
    io,             \* sleeps and requests of the current fetch call, in order
    start_url,      \* crawl's argument
    resume,         \* crawl's argument
    calls,          \* crawl() calls made on this crawler object
    crawls,         \* crawl() calls made so far, on all crawler objects
    metadata,       \* rows of crawl_metadata.tsv after the header
    state_file,     \* crawler_state.json: NoState, or the snapshot
    html_files,     \* the files under html/: path -> content
    site,           \* the body each page answers with, once it was served
    failures        \* failed requests so far

vars == << visited, page_count, to_visit, pc, current_url, attempt, html, io,
           start_url, resume, calls, crawls, metadata, state_file, html_files,
           site, failures >>

\* the state of the indexer, of its index file and of the last call made on it
\* (see the indexer below)
VARIABLES index, doc_count, doc_lengths, drugs, index_file, adds, last
ivars == <<index, doc_count, doc_lengths, drugs, index_file, adds, last>>

EmptyDict == << >>
NoFile == [exists |-> FALSE]
\* no call on the indexer has a result that its caller still holds
NoCall == [op |-> "none"]

\* a new DrugTFIDFIndexer, lines 8-12, and no index file on disk
IndexInit ==
    /\ index = EmptyDict
    /\ doc_count = 0
    /\ doc_lengths = EmptyDict
    /\ drugs = EmptyDict
    /\ index_file = NoFile
    /\ adds = 0
    /\ last = NoCall

NoState == [exists |-> FALSE, to_visit |-> <<>>, visited |-> <<>>, page_count |-> 0]
NoUrl == Url("", <<>>)
AllUrls == Pages \cup {MediaUrl, ExternalUrl}

(***************************************************************************)
(* Pure helpers.                                                           *)
(***************************************************************************)
SeqToSet(s) == {s[i] : i \in 1..Len(s)}
InSeq(x, s) == \E i \in 1..Len(s) : s[i] = x

\* re.sub(r"[^a-zA-Z0-9_-]", "_", ...) on one token
AlnumTokens == {"a", "b", "c", "logo", "png", "_", "-"}
Sanitize(tok) == IF tok \in AlnumTokens THEN tok ELSE "_"

RECURSIVE StripLeft(_)
StripLeft(p) == IF p # <<>> /\ Head(p) = "/" THEN StripLeft(Tail(p)) ELSE p
RECURSIVE StripRight(_)
StripRight(p) ==
    IF p # <<>> /\ p[Len(p)] = "/" THEN StripRight(SubSeq(p, 1, Len(p) - 1)) ELSE p
Strip(p) == StripRight(StripLeft(p))

SafeName(url) ==
    LET s == Strip(url.path)
        n == [i \in 1..Len(s) |-> Sanitize(s[i])]
        named == IF n = <<>> THEN <<"index">> ELSE n
    IN  IF Len(named) > MaxNameLen THEN SubSeq(named, 1, MaxNameLen) ELSE named

GetHtmlPath(url) == [batch |-> page_count \div BatchSize, name |-> SafeName(url)]

\* is_allowed_url without its `not`
IsAllowedUrlInverted(url) ==
    LET p == url.path
    IN  Len(p) >= 2 /\ p[Len(p) - 1] = "." /\ p[Len(p)] \in {"png", "jpg", "css", "js"}

MediaExtensions ==
    { "png", "jpg", "jpeg", "gif", "ico", "css", "js", "svg", "woff", "woff2",
      "ttf", "eot", "mp4", "mp3", "mov", "avi" }
IsAllowedUrl(url) ==
    LET p == url.path
    IN  ~(Len(p) >= 2 /\ p[Len(p) - 1] = "." /\ p[Len(p)] \in MediaExtensions)

SkippedSchemes == {"javascript", "mailto", "tel", "data"}
ExtractLinks(body) ==
    { Url(h.host, h.path) :
        h \in { g \in body.hrefs : /\ g.scheme \notin SkippedSchemes
                                   /\ ~(g.path = <<>> /\ g.frag # "")
                                   /\ g.host = BaseHost } }

\* Python truthiness of fetch's result: None and "" are both falsy
Falsy(h) == h.kind \in {"none", "empty"}

\* list(self.visited): the elements in some order; load_state applies set() to it
SetToSeq(S) == CHOOSE s \in [1..Cardinality(S) -> S] : SeqToSet(s) = S

\* the orders in which `for link in new_links` may run over the set
Orders(S) == {s \in [1..Cardinality(S) -> S] : SeqToSet(s) = S}

\* crawl, lines 179-181: the links of `order` appended to queue q
RECURSIVE Enqueue(_, _, _)
Enqueue(q, order, vis) ==
    IF order = <<>> THEN q
    ELSE LET link == Head(order)
             q2 == IF link \notin vis /\ ~InSeq(link, q) /\ IsAllowedUrl(link)
                   THEN Append(q, link) ELSE q
         IN  Enqueue(q2, Tail(order), vis)

\* save_state that writes an empty queue
SnapshotDropsQueue(q, vis, n) ==
    [exists |-> TRUE, to_visit |-> <<>>, visited |-> SetToSeq(vis), page_count |-> n]

\* save_state: the snapshot written to crawler_state.json
Snapshot(q, vis, n) ==
    [exists |-> TRUE, to_visit |-> q, visited |-> SetToSeq(vis), page_count |-> n]

\* log_metadata writing the attempt counted from zero
RowZeroBased(url, status, code, retries, path) ==
    [url |-> url, status |-> status, http_code |-> code, retries |-> retries - 1,
     saved_path |-> path, scraped_at |-> crawls]

\* log_metadata: one row of the audit log; scraped_at is the crawl invocation
Row(url, status, code, retries, path) ==
    [url |-> url, status |-> status, http_code |-> code, retries |-> retries,
     saved_path |-> path, scraped_at |-> crawls]
NoPath == [batch |-> 0, name |-> <<"N/A">>]

(***************************************************************************)
(* Initial state: a crawler constructed with resume = False over an empty  *)
(* output directory; no page of the site has been served yet.              *)
(***************************************************************************)
Init ==
    /\ visited = {}
    /\ page_count = 0
    /\ to_visit = <<>>
    /\ pc = "idle"
    /\ current_url = NoUrl
    /\ attempt = 0
    /\ html = None
    /\ io = <<>>
    /\ start_url = NoUrl
    /\ resume = FALSE
    /\ calls = 0
    /\ crawls = 0
    /\ metadata = <<>>
    /\ state_file = NoState
    /\ html_files = << >>
    /\ site = [u \in AllUrls |-> Unknown]
    /\ failures = 0
    /\ IndexInit

\* __init__, lines 32-42: the fields of a new crawler object and the audit log
\* it opens; crawl_metadata.tsv exists since the first crawler was constructed
InitCrawler(r) ==
    [visited |-> {}, page_count |-> 0, metadata |-> IF r THEN metadata ELSE <<>>]

\* load_state on a crawler holding vis and n
LoadState(vis, n) ==
    IF state_file.exists
    THEN [found |-> TRUE, to_visit |-> state_file.to_visit,
          visited |-> SeqToSet(state_file.visited),
          page_count |-> state_file.page_count]
    ELSE [found |-> FALSE, to_visit |-> <<>>, visited |-> vis, page_count |-> n]

\* crawl, lines 161-168: the queue the loop starts from
InitialQueue(s, r, loaded) ==
    IF r
    THEN IF loaded.found /\ loaded.to_visit # <<>> THEN loaded.to_visit ELSE <<s>>
    ELSE <<s>>

\* crawl(start_url = s, resume = r), lines 157-169, on a crawler holding vis and n
CrawlEntry(vis, n, s, r) ==
    /\ LET loaded == LoadState(vis, n)
       IN  /\ visited' = IF r THEN loaded.visited ELSE vis
           /\ page_count' = IF r THEN loaded.page_count ELSE n
           /\ to_visit' = InitialQueue(s, r, loaded)
    /\ start_url' = s
    /\ resume' = r
    /\ crawls' = crawls + 1
    /\ pc' = "loop"
    /\ current_url' = NoUrl
    /\ attempt' = 0
    /\ html' = None
    /\ io' = <<>>
    /\ UNCHANGED <<state_file, html_files, site, failures>>
    /\ UNCHANGED ivars

\* crawl() called on the crawler object at hand: its first call, or a further
\* call after an earlier one returned
CrawlStart(s, r) ==
    /\ pc \in {"idle", "done"}
    /\ crawls < MaxCrawls
    /\ CrawlEntry(visited, page_count, s, r)
    /\ calls' = calls + 1
    /\ UNCHANGED metadata

\* main run again over the same output directory: a new crawler object is
\* constructed with resume = r and crawl(resume = r) is called on it
Restart(s, r) ==
    /\ pc \in {"done", "aborted"}
    /\ crawls < MaxCrawls
    /\ LET c == InitCrawler(r)
       IN  /\ metadata' = c.metadata
           /\ CrawlEntry(c.visited, c.page_count, s, r)
    /\ calls' = 1

\* the ceiling the loop tests when crawl was called with max_pages = k: line 169
\* rebinds the parameter before the loop reads it
CrawlCeiling(k) == max_pages

\* the test of the while loop, line 170
LoopCondition == to_visit # <<>> /\ Cardinality(visited) < CrawlCeiling(MaxPagesArg)

\* fetch without its test of the visited set
FetchSkipsNever(url) == FALSE

\* fetch, lines 45-46: whether the call returns at once
FetchSkips(url) == url \in visited

\* to_visit[0] read in place of to_visit.pop(0): the queue keeps its head
PopKeepsHead(q) == q

\* to_visit.pop(0), line 171: the queue left behind
Pop(q) == Tail(q)

\* to_visit.pop(0) and the entry of fetch(current_url)
Dequeue ==
    /\ pc = "loop"
    /\ LoopCondition
    /\ current_url' = Head(to_visit)
    /\ to_visit' = Pop(to_visit)
    /\ io' = <<>>
    /\ IF FetchSkips(Head(to_visit))
       THEN /\ html' = None
            /\ attempt' = 0
            /\ pc' = "fetched"
       ELSE /\ html' = None
            /\ attempt' = 1
            /\ pc' = "fetching"
    /\ UNCHANGED <<visited, page_count, start_url, resume, calls, crawls, metadata,
                   state_file, html_files, site, failures>>
    /\ UNCHANGED ivars

\* fetch, lines 49-54: the politeness sleep and then the request, which ends "ok"
\* or "fail"
AttemptIo(result) == <<"sleep", result>>

\* the last attempt taken one too early
LastAttemptOffByOne == attempt = max_retries - 1

\* fetch, line 70: whether the failed attempt was the last one
LastAttempt == attempt = max_retries

\* fetch, lines 56-66: a successful response with body b
FetchSuccess(b) ==
    /\ visited' = visited \cup {current_url}
    /\ metadata' = Append(metadata,
                     Row(current_url, "success", "200", attempt, GetHtmlPath(current_url)))
    /\ html' = b
    /\ pc' = "fetched"
    /\ UNCHANGED <<attempt, failures>>
    /\ UNCHANGED ivars

\* fetch, lines 68-79: a request that raised RequestException, with the code it carried
FetchFailure(code) ==
    /\ failures < MaxFailures
    /\ failures' = failures + 1
    /\ IF LastAttempt
       THEN /\ metadata' = Append(metadata, Row(current_url, "failed", code, attempt, NoPath))
            /\ html' = None
            /\ pc' = "fetched"
            /\ UNCHANGED attempt
       ELSE /\ attempt' = attempt + 1
            /\ UNCHANGED <<metadata, html, pc>>
    /\ UNCHANGED <<visited, site>>
    /\ UNCHANGED ivars

\* one pass of fetch's retry loop, lines 48-79
FetchAttempt ==
    /\ pc = "fetching"
    /\ \/ \E b \in Bodies :
            /\ site[current_url] \in {Unknown, b}
            /\ site' = [site EXCEPT ![current_url] = b]
            /\ io' = io \o AttemptIo("ok")
            /\ FetchSuccess(b)
       \/ \E code \in {"500", "N/A"} :
            /\ io' = io \o AttemptIo("fail")
            /\ FetchFailure(code)
    /\ UNCHANGED <<page_count, to_visit, current_url, start_url, resume, calls, crawls,
                   state_file, html_files>>

\* save_html, lines 143-149: the files after writing body b for url
SaveHtml(url, b) == (GetHtmlPath(url) :> b) @@ html_files

\* crawl, lines 173-184: the rest of the iteration once fetch has returned
Process ==
    /\ pc = "fetched"
    /\ IF Falsy(html)
       THEN UNCHANGED <<page_count, to_visit, state_file, html_files>>
       ELSE /\ html_files' = SaveHtml(current_url, html)
            /\ page_count' = page_count + 1
            /\ \E order \in Orders(ExtractLinks(html)) :
                 to_visit' = Enqueue(to_visit, order, visited)
            /\ state_file' = IF page_count' % SnapshotEvery = 0
                             THEN Snapshot(to_visit', visited, page_count')
                             ELSE state_file
    /\ pc' = "loop"
    \* the locals of the iteration are dead from here on
    /\ current_url' = NoUrl
    /\ attempt' = 0
    /\ html' = None
    /\ io' = <<>>
    /\ UNCHANGED <<visited, start_url, resume, calls, crawls, metadata, site, failures>>
    /\ UNCHANGED ivars

\* the loop ends: the final save_state, line 187, and crawl returns
LoopExit ==
    /\ pc = "loop"
    /\ ~LoopCondition
    /\ state_file' = Snapshot(to_visit, visited, page_count)
    /\ pc' = "done"
    /\ UNCHANGED <<visited, page_count, to_visit, current_url, attempt, html, io,
                   start_url, resume, calls, crawls, metadata, html_files, site, failures>>
    /\ UNCHANGED ivars

\* an exception that crawl does not catch, raised once fetch has returned a
\* page (an OSError of save_html, a keyboard interrupt): the run ends without
\* the final save_state, and main closes the crawler
Abort ==
    /\ pc = "fetched"
    /\ ~Falsy(html)
    /\ pc' = "aborted"
    /\ current_url' = NoUrl
    /\ attempt' = 0
    /\ html' = None
    /\ io' = <<>>
    /\ UNCHANGED <<visited, page_count, to_visit, start_url, resume, calls, crawls,
                   metadata, state_file, html_files, site, failures>>
    /\ UNCHANGED ivars

(***************************************************************************)
(* The TF-IDF indexer (src/indexer_old.py) and the search engine           *)
(* (src/search_engine_old.py).  A text is a sequence of pieces that single *)
(* blanks separate; a piece is a string of the vocabulary below, spelled   *)
(* out in characters so that the tokenizer's patterns can be applied to    *)
(* it.  The patterns are applied piece by piece: no text of the model has  *)
(* a match that spans two pieces.                                          *)
(***************************************************************************)
Spelling ==
    ("pain" :> <<"p", "a", "i", "n">>) @@
    ("relief" :> <<"r", "e", "l", "i", "e", "f">>) @@
    ("the" :> <<"t", "h", "e">>) @@
    ("drug" :> <<"d", "r", "u", "g">>) @@
    ("2 mg" :> <<"2", " ", "m", "g">>) @@
    ("2mg" :> <<"2", "m", "g">>) @@
    ("x-ray" :> <<"x", "-", "r", "a", "y">>) @@
    ("ray" :> <<"r", "a", "y">>) @@
    ("5%w" :> <<"5", "%", "w">>) @@
    ("5%" :> <<"5", "%">>) @@
    ("Not" :> <<"N", "o", "t">>) @@
    ("not" :> <<"n", "o", "t">>) @@
    ("found" :> <<"f", "o", "u", "n", "d">>) @@
    (" " :> <<" ">>)

Chars(w) == Spelling[w]
Name(cs) == CHOOSE w \in DOMAIN Spelling : Spelling[w] = cs

Digit == {"0", "1", "2", "3", "4", "5", "6", "7", "8", "9"}
Letter == {"a", "b", "c", "d", "e", "f", "g", "h", "i", "j", "k", "l", "m",
           "n", "o", "p", "q", "r", "s", "t", "u", "v", "w", "x", "y", "z"}
WordChar == Letter \cup Digit \cup {"_"}
UpperCase == ("N" :> "n")
\* the units of dosage_pattern, line 40
Units == {<<"m", "g">>, <<"m", "c", "g">>, <<"g">>, <<"m", "l">>, <<"m", "c", "l">>,
          <<"u", "g">>, <<"i", "u">>, <<"u", "n", "i", "t">>, <<"u", "n", "i", "t", "s">>}

\* the value a field or a text has when the extractor found nothing
NotFound == <<"Not", "found">>

GENERAL_STOPWORDS ==
    {"the", "a", "an", "and", "or", "but", "in", "on", "at", "to",
     "for", "of", "with", "by", "from", "as", "is", "was", "are",
     "were", "been", "be", "have", "has", "had", "do", "does", "did",
     "will", "would", "should", "could", "may", "might", "can", "this",
     "that", "these", "those", "it", "its", "you", "your", "not", "who", "any"}
DOMAIN_STOPWORDS ==
    {"drug", "drugs", "medicine", "medication", "medications",
     "treatment", "pharmaceutical", "therapy", "oral", "patient",
     "patients", "may", "should", "can", "use", "used", "using"}
ALL_STOPWORDS == GENERAL_STOPWORDS \cup DOMAIN_STOPWORDS

\* str.lower on the characters of a piece
Lower(cs) == [i \in 1..Len(cs) |-> IF cs[i] \in DOMAIN UpperCase THEN UpperCase[cs[i]] ELSE cs[i]]

RECURSIVE Leading(_, _)
\* the number of leading characters of cs that are in S
Leading(cs, S) ==
    IF cs = <<>> \/ Head(cs) \notin S THEN 0 ELSE 1 + Leading(Tail(cs), S)

RECURSIVE WordRuns(_)
\* the maximal runs of word characters of cs: the stretches between two \b
WordRuns(cs) ==
    IF cs = <<>> THEN <<>>
    ELSE LET n == Leading(cs, WordChar)
         IN  IF n = 0 THEN WordRuns(Tail(cs))
             ELSE <<SubSeq(cs, 1, n)>> \o WordRuns(SubSeq(cs, n + 1, Len(cs)))

RECURSIVE Concat(_)
Concat(ss) == IF ss = <<>> THEN <<>> ELSE Head(ss) \o Concat(Tail(ss))

\* dosage_pattern on a piece, lines 40-44: a number, blanks, a unit; the match
\* with its blanks removed
IsDosage(cs) ==
    LET n == Leading(cs, Digit)
    IN  n > 0 /\ SelectSeq(SubSeq(cs, n + 1, Len(cs)), LAMBDA c : c # " ") \in Units
Dosages(cs) == IF IsDosage(cs) THEN <<SelectSeq(cs, LAMBDA c : c # " ")>> ELSE <<>>

\* compound_pattern on a piece, lines 48-50: letter runs joined by hyphens
IsCompound(cs) ==
    /\ Len(cs) >= 3
    /\ \A i \in 1..Len(cs) : cs[i] \in Letter \cup {"-"}
    /\ \E i \in 1..Len(cs) : cs[i] = "-"
    /\ cs[1] # "-" /\ cs[Len(cs)] # "-"
    /\ \A i \in 1..(Len(cs) - 1) : ~(cs[i] = "-" /\ cs[i + 1] = "-")
Compounds(cs) == IF IsCompound(cs) THEN <<cs>> ELSE <<>>

\* the percentage pattern on a piece, lines 52-53: a number and a percent sign
\* with a word boundary after the sign, that is, a word character follows it
Percentages(cs) ==
    LET n == Leading(cs, Digit)
    IN  IF n > 0 /\ Len(cs) >= n + 2 /\ cs[n + 1] = "%" /\ cs[n + 2] \in WordChar
        THEN <<SubSeq(cs, 1, n + 1)>>
        ELSE <<>>

\* the word pattern on a piece, lines 54-55: runs of three or more letters
Words(cs) ==
    SelectSeq(WordRuns(cs), LAMBDA r : Len(r) >= 3 /\ \A i \in 1..Len(r) : r[i] \in Letter)

\* the tokenizer without its filter
KeepEverything(token) == TRUE

\* the filter of lines 57-63 on one candidate token
Keep(token) ==
    LET cs == Chars(token)
    IN  IF \/ \E i \in 1..Len(cs) : cs[i] \in Digit
           \/ \E i \in 1..Len(cs) : cs[i] = "-"
           \/ \E i \in 1..Len(cs) : cs[i] = "%"
        THEN TRUE
        ELSE token \notin ALL_STOPWORDS /\ Len(cs) > 2

\* the candidate tokens of lines 40-55, in the order the four passes append them
Candidates(text) ==
    LET low == [i \in 1..Len(text) |-> Lower(Chars(text[i]))]
        rest == [i \in 1..Len(low) |-> IF IsDosage(low[i]) THEN <<" ">> ELSE low[i]]
        found == Concat([i \in 1..Len(low) |-> Dosages(low[i])])
                 \o Concat([i \in 1..Len(rest) |-> Compounds(rest[i])])
                 \o Concat([i \in 1..Len(rest) |-> Percentages(rest[i])])
                 \o Concat([i \in 1..Len(rest) |-> Words(rest[i])])
    IN  [i \in 1..Len(found) |-> Name(found[i])]

\* tokenize, lines 30-65
Tokenize(text) ==
    IF text = <<>> \/ text = NotFound
    THEN <<>>
    ELSE SelectSeq(Candidates(text), Keep)

(***************************************************************************)
(* The state of a DrugTFIDFIndexer and of the index file it saves.  A      *)
(* Python dict whose iteration order is observed (the postings of a term)  *)
(* is a sequence of entries in insertion order; the other dicts are        *)
(* functions.                                                              *)
(***************************************************************************)
DictSet(d, k, v) == [x \in (DOMAIN d) \cup {k} |-> IF x = k THEN v ELSE d[x]]

\* the indexer's four fields as one value
Indexer == [index |-> index, doc_count |-> doc_count,
            doc_lengths |-> doc_lengths, drugs |-> drugs]

\* the weighted fields of create_document_text in the order it walks them
field_weights ==
    << [field |-> "drug_name", weight |-> 5],
       [field |-> "active_ingredients", weight |-> 3],
       [field |-> "indications_and_usage", weight |-> 4],
       [field |-> "inactive_ingredients", weight |-> 1],
       [field |-> "contraindications", weight |-> 1],
       [field |-> "warnings", weight |-> 1] >>

RECURSIVE Repeat(_, _)
\* [value] * weight joined by blanks
Repeat(text, n) == IF n = 0 THEN <<>> ELSE text \o Repeat(text, n - 1)

\* create_document_text, lines 67-85
CreateDocumentText(drug_record) ==
    Concat([i \in 1..Len(field_weights) |->
               LET value == drug_record[field_weights[i].field]
               IN  IF value # <<>> /\ value # NotFound
                   THEN Repeat(value, field_weights[i].weight)
                   ELSE <<>>])

\* Counter(tokens), line 89
TermCounts(tokens) ==
    [t \in SeqToSet(tokens) |-> Cardinality({i \in 1..Len(tokens) : tokens[i] = t})]

\* docs[doc_id] = count on the postings of one term: a new key goes last, a key
\* that is there keeps its place
PostingSet(docs, doc_id, count) ==
    IF \E i \in 1..Len(docs) : docs[i].doc = doc_id
    THEN [i \in 1..Len(docs) |->
             IF docs[i].doc = doc_id THEN [doc |-> doc_id, tf |-> count] ELSE docs[i]]
    ELSE Append(docs, [doc |-> doc_id, tf |-> count])

\* self.index[term] on the defaultdict: the dict after the lookup, which has
\* the key with an empty dict when it was missing
DefaultDictGet(idx, term) ==
    IF term \in DOMAIN idx THEN idx ELSE DictSet(idx, term, <<>>)

\* add_document, lines 87-95, on an indexer ix
AddDoc(ix, doc_id, text) ==
    LET tokens == Tokenize(text)
        term_counts == TermCounts(tokens)
    IN  [index |-> [t \in (DOMAIN ix.index) \cup (DOMAIN term_counts) |->
                       IF t \in DOMAIN term_counts
                       THEN PostingSet(DefaultDictGet(ix.index, t)[t], doc_id, term_counts[t])
                       ELSE ix.index[t]],
         doc_count |-> ix.doc_count + 1,
         doc_lengths |-> DictSet(ix.doc_lengths, doc_id, Len(tokens)),
         drugs |-> ix.drugs]

\* the body of the loop of load_from_tsv, lines 102-105, for one row
LoadRow(ix, row) ==
    AddDoc([ix EXCEPT !.drugs = DictSet(ix.drugs, row.setid, row)],
           row.setid, CreateDocumentText(row))

RECURSIVE LoadRows(_, _)
\* load_from_tsv, lines 97-106, over the rows of a file
LoadRows(ix, rows) ==
    IF rows = <<>> THEN ix ELSE LoadRows(LoadRow(ix, Head(rows)), Tail(rows))

\* json.dump and json.load on the values the indexer holds: an int is written
\* as a JSON number and a str as a JSON string, a dict as an object whose
\* members keep the order and the (str) keys of the dict
JsonNumber(n) == [type |-> "number", value |-> n]
JsonString(text) == [type |-> "string", value |-> text]
JsonPostings(docs) ==
    [type |-> "object",
     members |-> [i \in 1..Len(docs) |-> [key |-> docs[i].doc, value |-> JsonNumber(docs[i].tf)]]]
JsonIndex(idx) == [type |-> "object", members |-> [t \in DOMAIN idx |-> JsonPostings(idx[t])]]
JsonLengths(d) == [type |-> "object", members |-> [k \in DOMAIN d |-> JsonNumber(d[k])]]
JsonRow(row) == [type |-> "object", members |-> [k \in DOMAIN row |-> JsonString(row[k])]]
JsonRows(d) == [type |-> "object", members |-> [k \in DOMAIN d |-> JsonRow(d[k])]]
PyValue(json) == json.value
PyPostings(json) ==
    [i \in 1..Len(json.members) |->
        [doc |-> json.members[i].key, tf |-> PyValue(json.members[i].value)]]
PyIndex(json) == [t \in DOMAIN json.members |-> PyPostings(json.members[t])]
PyLengths(json) == [k \in DOMAIN json.members |-> PyValue(json.members[k])]
PyRow(json) == [k \in DOMAIN json.members |-> PyValue(json.members[k])]
PyRows(json) == [k \in DOMAIN json.members |-> PyRow(json.members[k])]

\* save_index, lines 114-123: the JSON document written
ToJson(ix) ==
    [exists |-> TRUE,
     data |-> [index |-> JsonIndex(ix.index),
               doc_count |-> JsonNumber(ix.doc_count),
               doc_lengths |-> JsonLengths(ix.doc_lengths),
               drugs |-> JsonRows(ix.drugs)]]

\* load_index that takes the number of documents from the lengths it read
FromJsonCountsLengths(file) ==
    [index |-> PyIndex(file.data.index),
     doc_count |-> Cardinality(DOMAIN file.data.doc_lengths.members),
     doc_lengths |-> PyLengths(file.data.doc_lengths),
     drugs |-> PyRows(file.data.drugs)]

\* load_index, lines 127-136: the indexer's fields after reading the document
FromJson(file) ==
    [index |-> PyIndex(file.data.index),
     doc_count |-> PyValue(file.data.doc_count),
     doc_lengths |-> PyLengths(file.data.doc_lengths),
     drugs |-> PyRows(file.data.drugs)]

(***************************************************************************)
(* IDFCalculator and DrugSearchEngine.search.  A score is a whole number   *)
(* of millionths: math.log is the table of natural logarithms below,       *)
(* rounded to six places, and log(a / b) is taken as log(a) - log(b).      *)
(***************************************************************************)
LnMicro ==
    << 0, 693147, 1098612, 1386294, 1609438, 1791759, 1945910, 2079442,
       2197225, 2302585, 2397895, 2484907, 2564949, 2639057, 2708050, 2772589 >>
\* math.log(num / den) for whole num and den; a num that is not positive
\* raises ValueError in the source (see MathDomainError)
Log(num, den) == IF num <= 0 THEN 0 ELSE LnMicro[num] - LnMicro[den]

\* len(self.index.get(term, {}))
Df(idx, term) == IF term \in DOMAIN idx THEN Len(idx[term]) ELSE 0

standard_idf(idx, N, term) ==
    LET df == Df(idx, term) IN IF df = 0 THEN 0 ELSE Log(N, df)
smooth_idf(idx, N, term) ==
    LET df == Df(idx, term) IN Log(N, df + 1)
probabilistic_idf(idx, N, term) ==
    LET df == Df(idx, term) IN IF df = 0 \/ df = N THEN 0 ELSE Log(N - df, df)
\* log((N - df + 0.5) / (df + 0.5)), both sides of the fraction doubled
bm25_idf(idx, N, term) ==
    LET df == Df(idx, term) IN Log(2 * (N - df) + 1, 2 * df + 1)

Methods == {"standard", "smooth", "probabilistic", "bm25", "cosine"}

\* the dispatch of search where a name it does not know selects smooth_idf
IdfUnknownSmooth(method, idx, N, term) ==
    CASE method = "standard" -> standard_idf(idx, N, term)
      [] method = "probabilistic" -> probabilistic_idf(idx, N, term)
      [] method = "bm25" -> bm25_idf(idx, N, term)
      [] OTHER -> smooth_idf(idx, N, term)

\* the dispatch on idf_method, lines 52-61
Idf(method, idx, N, term) ==
    CASE method = "standard" -> standard_idf(idx, N, term)
      [] method = "smooth" -> smooth_idf(idx, N, term)
      [] method = "probabilistic" -> probabilistic_idf(idx, N, term)
      [] method = "bm25" -> bm25_idf(idx, N, term)
      [] OTHER -> standard_idf(idx, N, term)

\* the argument math.log gets is not positive
MathDomainError(method, idx, N, term) ==
    LET df == Df(idx, term)
    IN  CASE method = "smooth" -> N <= 0
          [] method = "probabilistic" -> df # 0 /\ df # N /\ N - df <= 0
          [] method = "bm25" -> 2 * (N - df) + 1 <= 0
          [] OTHER -> df # 0 /\ N <= 0

\* search without its test of the vocabulary
InIndexAlways(idx, term) == TRUE

\* term in self.indexer.index, lines 49 and 67
InIndex(idx, term) == term \in DOMAIN idx

RECURSIVE IndexAfterLookups(_, _)
\* the defaultdict after the loop of lines 48-65 has looked its terms up
IndexAfterLookups(idx, terms) ==
    IF terms = <<>> THEN idx
    ELSE IF ~InIndex(idx, Head(terms))
         THEN IndexAfterLookups(idx, Tail(terms))
         ELSE IndexAfterLookups(DefaultDictGet(idx, Head(terms)), Tail(terms))

HasDoc(docs, doc_id) == \E i \in 1..Len(docs) : docs[i].doc = doc_id
TfOf(docs, doc_id) == docs[CHOOSE i \in 1..Len(docs) : docs[i].doc = doc_id].tf

RECURSIVE Accumulate(_, _, _, _, _)
\* scores[doc_id] after the loop of lines 48-65 over the query terms
Accumulate(method, idx, N, terms, doc_id) ==
    IF terms = <<>> THEN 0
    ELSE (IF InIndex(idx, Head(terms)) /\ HasDoc(idx[Head(terms)], doc_id)
          THEN TfOf(idx[Head(terms)], doc_id) * Idf(method, idx, N, Head(terms))
          ELSE 0)
         + Accumulate(method, idx, N, Tail(terms), doc_id)

\* doc_term_counts[doc_id] after the loop
DocTermCount(idx, terms, doc_id) ==
    Cardinality({i \in 1..Len(terms) :
                    InIndex(idx, terms[i]) /\ HasDoc(idx[terms[i]], doc_id)})

\* the required match count that counts every query term
NumQueryTermsAll(idx, terms) == Len(terms)

\* num_query_terms, line 67
NumQueryTerms(idx, terms) == Len(SelectSeq(terms, LAMBDA t : InIndex(idx, t)))

RECURSIVE Dedup(_)
\* the keys of a dict in insertion order, given the keys in the order they were set
Dedup(keys) ==
    IF keys = <<>> THEN <<>>
    ELSE LET front == Dedup(SubSeq(keys, 1, Len(keys) - 1))
             k == keys[Len(keys)]
         IN  IF \E i \in 1..Len(front) : front[i] = k THEN front ELSE Append(front, k)

\* the keys of scores in insertion order
ScoredDocs(idx, terms) ==
    Dedup(Concat([i \in 1..Len(terms) |->
                     IF InIndex(idx, terms[i])
                     THEN [j \in 1..Len(idx[terms[i]]) |-> idx[terms[i]][j].doc]
                     ELSE <<>>]))

\* the filter that lets every scored document through
PassesFilterAlways(count, num) == TRUE

\* the test of line 71
PassesFilter(count, num) == count = num

\* sorted without reverse = True
SortedAscending(docs, score) ==
    IF docs = <<>> THEN <<>>
    ELSE LET Insert(sorted, x) ==
                 LET n == Cardinality({i \in 1..Len(sorted) : score[sorted[i]] <= score[x]})
                 IN  SubSeq(sorted, 1, n) \o <<x>> \o SubSeq(sorted, n + 1, Len(sorted))
             F[k \in 0..Len(docs)] == IF k = 0 THEN <<>> ELSE Insert(F[k - 1], docs[k])
         IN  F[Len(docs)]

\* sorted(..., key = score, reverse = True), line 78: a stable sort, documents
\* of equal score keep the order they had
SortedDescending(docs, score) ==
    IF docs = <<>> THEN <<>>
    ELSE LET Insert(sorted, x) ==
                 LET n == Cardinality({i \in 1..Len(sorted) : score[sorted[i]] >= score[x]})
                 IN  SubSeq(sorted, 1, n) \o <<x>> \o SubSeq(sorted, n + 1, Len(sorted))
             F[k \in 0..Len(docs)] == IF k = 0 THEN <<>> ELSE Insert(F[k - 1], docs[k])
         IN  F[Len(docs)]

\* ranked[:top_k]
Slice(ranked, top_k) ==
    IF top_k >= 0
    THEN SubSeq(ranked, 1, IF top_k < Len(ranked) THEN top_k ELSE Len(ranked))
    ELSE SubSeq(ranked, 1, IF Len(ranked) + top_k > 0 THEN Len(ranked) + top_k ELSE 0)

\* the characters of a text
Join(text) ==
    IF text = <<>> THEN <<>>
    ELSE Chars(text[1]) \o Concat([i \in 1..(Len(text) - 1) |-> <<" ">> \o Chars(text[i + 1])])

\* drug.get('indications_and_usage', '')[:200] + '...', line 87
Snippet(text) ==
    LET cs == Join(text)
    IN  SubSeq(cs, 1, IF SnippetLen < Len(cs) THEN SnippetLen ELSE Len(cs)) \o <<".", ".", ".">>

\* one entry of the list search returns, lines 83-89
ResultEntry(doc_id, score, drug) ==
    [setid |-> doc_id,
     drug_name |-> drug.drug_name,
     score |-> score,
     indications |-> Snippet(drug.indications_and_usage),
     active_ingredients |-> drug.active_ingredients]

\* DrugSearchEngine(indexer).search(query, top_k, idf_method), lines 38-91, on
\* an indexer ix: what the call returns or raises, and the defaultdict after it
SearchCall(ix, query, top_k, method) ==
    LET query_terms == Tokenize(query)
        idx == IndexAfterLookups(ix.index, query_terms)
        N == ix.doc_count
        scored == ScoredDocs(idx, query_terms)
        score == [d \in SeqToSet(scored) |-> Accumulate(method, idx, N, query_terms, d)]
        num_query_terms == NumQueryTerms(idx, query_terms)
        filtered == SelectSeq(scored, LAMBDA d :
                        PassesFilter(DocTermCount(idx, query_terms, d), num_query_terms))
        ranked == Slice(SortedDescending(filtered, score), top_k)
    IN  IF query_terms = <<>>
        THEN [raised |-> "none", results |-> <<>>, index |-> ix.index]
        ELSE IF \E i \in 1..Len(query_terms) :
                    /\ InIndex(idx, query_terms[i])
                    /\ MathDomainError(method, idx, N, query_terms[i])
        THEN [raised |-> "ValueError", results |-> <<>>, index |-> idx]
        ELSE IF \E i \in 1..Len(ranked) : ranked[i] \notin DOMAIN ix.drugs
        THEN [raised |-> "KeyError", results |-> <<>>, index |-> idx]
        ELSE [raised |-> "none",
              results |-> [i \in 1..Len(ranked) |->
                              ResultEntry(ranked[i], score[ranked[i]], ix.drugs[ranked[i]])],
              index |-> idx]

(***************************************************************************)
(* The inputs of the indexer and of the search engine.                     *)
(***************************************************************************)
Docs == {"A", "B"}
Texts ==
    { <<"pain", "relief">>, <<"pain">>, <<"the", "2 mg", "x-ray">> }

Record(id, name, active, indications, warnings) ==
    [setid |-> id, drug_name |-> name, active_ingredients |-> active,
     indications_and_usage |-> indications, inactive_ingredients |-> <<>>,
     contraindications |-> NotFound, warnings |-> warnings]
RowA == Record("A", <<"relief">>, NotFound, <<"pain">>, <<"the", "2 mg">>)
RowB == Record("B", <<"pain">>, <<"x-ray">>, NotFound, <<"pain">>)
RowA2 == Record("A", <<"pain">>, NotFound, <<>>, NotFound)
TsvFiles == { <<RowA>>, <<RowB>>, <<RowA, RowB>>, <<RowA, RowA2>> }

Queries ==
    { <<"pain", "relief">>, <<"pain", "pain">>, <<"the", "drug", "2 mg", "pain">>,
      <<"x-ray", "2 mg", "5%w">>, <<"relief", "found">>, NotFound }
TopKs == {1, DefaultTopK}

\* the calls on the indexer and the engine come one after the other from one
\* caller (main's prompt loop): the caller has done with the list search
\* returned before it makes its next call
Returned == last.op # "search"

\* the indexer takes the fields of ix
SetIndexer(ix) ==
    /\ index' = ix.index
    /\ doc_count' = ix.doc_count
    /\ doc_lengths' = ix.doc_lengths
    /\ drugs' = ix.drugs

\* indexer.add_document(doc_id, text)
AddDocument(doc_id, text) ==
    /\ Returned
    /\ adds < MaxAdds
    /\ adds' = adds + 1
    /\ SetIndexer(AddDoc(Indexer, doc_id, text))
    /\ last' = NoCall
    /\ UNCHANGED index_file
    /\ UNCHANGED vars

\* indexer.load_from_tsv(path) on a file with the given rows
LoadFromTsv(rows) ==
    /\ Returned
    /\ adds + Len(rows) <= MaxAdds
    /\ adds' = adds + Len(rows)
    /\ SetIndexer(LoadRows(Indexer, rows))
    /\ last' = NoCall
    /\ UNCHANGED index_file
    /\ UNCHANGED vars

\* indexer.save_index(path)
SaveIndex ==
    /\ Returned
    /\ index_file' = ToJson(Indexer)
    /\ last' = NoCall
    /\ UNCHANGED <<index, doc_count, doc_lengths, drugs, adds>>
    /\ UNCHANGED vars

\* indexer.load_index(path)
LoadIndex ==
    /\ Returned
    /\ index_file.exists
    /\ SetIndexer(FromJson(index_file))
    /\ last' = [op |-> "load_index"]
    /\ UNCHANGED <<index_file, adds>>
    /\ UNCHANGED vars

\* DrugSearchEngine(indexer).search(query, top_k, idf_method)
Search(query, top_k, method) ==
    /\ Returned
    /\ LET call == SearchCall(Indexer, query, top_k, method)
       IN  /\ index' = call.index
           /\ last' = [op |-> "search", query |-> query, top_k |-> top_k,
                       method |-> method, query_terms |-> Tokenize(query),
                       raised |-> call.raised, results |-> call.results]
    /\ UNCHANGED <<doc_count, doc_lengths, drugs, index_file, adds>>
    /\ UNCHANGED vars

\* the caller has printed the list search returned, compare_idf_methods lines 99-121
Consume ==
    /\ last.op = "search"
    /\ last' = NoCall
    /\ UNCHANGED <<index, doc_count, doc_lengths, drugs, index_file, adds>>
    /\ UNCHANGED vars

IndexNext ==
    \/ \E d \in Docs, t \in Texts : AddDocument(d, t)
    \/ \E rows \in TsvFiles : LoadFromTsv(rows)
    \/ SaveIndex
    \/ LoadIndex
    \/ \E q \in Queries, k \in TopKs, m \in Methods : Search(q, k, m)
    \/ Consume

Step == Dequeue \/ FetchAttempt \/ Process \/ LoopExit

Next ==
    \/ \E s \in Seeds, r \in BOOLEAN : CrawlStart(s, r)
    \/ \E s \in Seeds, r \in BOOLEAN : Restart(s, r)
    \/ Dequeue
    \/ FetchAttempt
    \/ Process
    \/ LoopExit
    \/ Abort

allvars == <<vars, ivars>>

\* the crawler, next to an indexer nobody calls
Spec == Init /\ [][Next]_allvars

\* the crawl loop is sequential code: a running crawl takes its next step
FairSpec == Init /\ [][Next]_allvars /\ WF_vars(Step)

\* the indexer and the search engine, next to a crawler nobody calls
IndexSpec == Init /\ [][IndexNext]_allvars

(***************************************************************************)
(* Properties.                                                             *)
(***************************************************************************)
Running == pc \in {"loop", "fetching", "fetched"}
NoDuplicates(q) == \A i, j \in 1..Len(q) : i # j => q[i] # q[j]
\* the rows the current crawl() invocation wrote
RowsOfRun == {i \in 1..Len(metadata) : metadata[i].scraped_at = crawls}
\* the requests among the I/O events of a fetch call
Requests(evs) == {i \in 1..Len(evs) : evs[i] \in {"ok", "fail"}}

\* C1: in every reachable state, also right after crawl() has set up its queue
\* from the seed or from a snapshot, no URL is both visited and queued and no
\* URL is queued twice.
C1_FrontierInvariant ==
    /\ SeqToSet(to_visit) \cap visited = {}
    /\ NoDuplicates(to_visit)

\* C2: a fetch call on a visited URL returns None without sleeping, requesting
\* or logging and leaves visited and page_count alone; no request is ever
\* issued for a URL that is in visited.
C2_NoDoubleFetch ==
    [][ /\ ( /\ pc = "loop"
             /\ pc' \in {"fetching", "fetched"}
             /\ Head(to_visit) \in visited )
           => /\ pc' = "fetched"
              /\ html' = None
              /\ io' = <<>>
              /\ metadata' = metadata
              /\ visited' = visited
              /\ page_count' = page_count
        /\ Len(io') > Len(io) => current_url \notin visited ]_vars

\* C2 witness: fetch was called on a visited URL and has returned None
C2_Witness ==
    pc = "fetched" /\ current_url \in visited /\ html = None /\ io = <<>>

\* C3: a URL with a 'failed' row of the running crawl is not on the queue again
\* and is not fetched again in that crawl (no later row of the crawl names it).
C3_FailedAbandoned ==
    Running =>
        \A i \in RowsOfRun :
            metadata[i].status = "failed" =>
                /\ ~InSeq(metadata[i].url, to_visit)
                /\ \A j \in RowsOfRun : j > i => metadata[j].url # metadata[i].url

\* the site of the end-to-end scenario: page 1 links to pages 2 and 3, page 3
\* links back to page 1
LinksTo(L) == Page({Href("https", u, "") : u \in L})
E2ESite == (P1 :> LinksTo({P2, P3})) @@ (P2 :> LinksTo({})) @@ (P3 :> LinksTo({P1}))
\* a first crawl() of a crawler constructed with resume = False, without resume
FreshCrawl == calls = 1 /\ ~resume
\* every request of the crawl was answered successfully
AllFetchesSucceeded ==
    \A i \in 1..Len(metadata) :
        metadata[i].status = "success" /\ metadata[i].retries = 1
E2EScenario ==
    /\ pc = "done"
    /\ FreshCrawl
    /\ start_url = P1
    /\ \A u \in Pages : site[u] \in {Unknown, E2ESite[u]}
    /\ AllFetchesSucceeded

\* C4: a fresh crawl from page 1 over the end-to-end site with every fetch
\* succeeding ends with an empty queue, exactly the three pages visited and no
\* URL with two 'success' rows.
C4_EndToEnd ==
    E2EScenario =>
        /\ to_visit = <<>>
        /\ visited = Pages
        /\ \A i, j \in 1..Len(metadata) :
              (i # j /\ metadata[i].status = "success" /\ metadata[j].status = "success")
                  => metadata[i].url # metadata[j].url

\* C4 witness: the end-to-end crawl has ended with its three pages fetched
C4_Witness == E2EScenario /\ Len(metadata) = 3 /\ page_count = 3

\* fetch was entered with a URL that was not in visited, and has returned
FetchReturned == pc = "fetched" /\ attempt >= 1

\* C5: a fetch call on an unvisited URL issues between 1 and max_retries
\* requests, one sleep right before each, none after the first success; it
\* returns None only after exactly max_retries failed requests; the URL is in
\* visited after a success and is not after a failure.
C5_FetchRetries ==
    FetchReturned =>
        LET n == Cardinality(Requests(io))
        IN  /\ 1 <= n /\ n <= max_retries
            /\ Len(io) = 2 * n
            /\ \A k \in 1..n :
                  /\ io[2 * k - 1] = "sleep"
                  /\ io[2 * k] \in {"ok", "fail"}
                  /\ io[2 * k] = "ok" => k = n
            /\ html = None <=> io[2 * n] = "fail"
            /\ html = None => n = max_retries
            /\ current_url \in visited <=> io[2 * n] = "ok"

\* C5 witness: a fetch call has returned None after max_retries failed requests
C5_Witness ==
    FetchReturned /\ html = None /\ Len(io) = 2 * max_retries
        /\ current_url \notin visited

\* C6: the audit log gets a row only when a fetch call on an unvisited URL
\* ends, exactly one: 'success' with retries = the number of the request that
\* succeeded, or 'failed' with retries = max_retries; a failed attempt that is
\* not the last appends nothing, nor does a fetch call on a visited URL.
C6_AuditLog ==
    [][ /\ (pc = "fetching" /\ pc' = "fetched") =>
              /\ Len(metadata') = Len(metadata) + 1
              /\ SubSeq(metadata', 1, Len(metadata)) = metadata
              /\ LET row == metadata'[Len(metadata')]
                     n == Cardinality(Requests(io'))
                 IN  /\ row.url = current_url
                     /\ \/ row.status = "success" /\ row.retries = n /\ io'[Len(io')] = "ok"
                        \/ /\ row.status = "failed" /\ row.retries = max_retries
                           /\ n = max_retries /\ io'[Len(io')] = "fail"
        /\ (pc = "fetching" /\ pc' = "fetching") => metadata' = metadata
        /\ (pc = "loop" /\ pc' = "fetched") => metadata' = metadata
        /\ (Running /\ pc # "fetching") => metadata' = metadata ]_vars

\* C6 witness: the log ends with the 'success' row of a fetch whose second
\* request succeeded
C6_Witness ==
    /\ FetchReturned
    /\ Len(io) = 4
    /\ Len(metadata) >= 1
    /\ metadata[Len(metadata)].url = current_url
    /\ metadata[Len(metadata)].status = "success"
    /\ metadata[Len(metadata)].retries = 2

\* C7: in the crawl loop every successful fetch, whatever the body, is followed
\* by saving the content, incrementing page_count and enqueuing the unseen
\* allowed links.
C7_SuccessProcessed ==
    [][ (pc = "fetched" /\ pc' = "loop" /\ html # None) =>
            /\ page_count' = page_count + 1
            /\ GetHtmlPath(current_url) \in DOMAIN html_files'
            /\ html_files'[GetHtmlPath(current_url)] = html
            /\ \A l \in ExtractLinks(html) :
                  (l \notin visited /\ IsAllowedUrl(l)) => InSeq(l, to_visit') ]_vars

\* a step that enters crawl() with resume = True while a snapshot is on disk
ResumeFromSnapshot == pc \notin {"loop", "fetching", "fetched"} /\ pc' = "loop"
                          /\ resume' /\ state_file.exists

\* C8: crawl(resume = True) that finds a snapshot starts its loop from exactly
\* the snapshot (queue = to_visit in the saved order, visited, page_count)
\* and does not queue the seed, also when the saved to_visit is empty.
C8_ResumeFromSnapshot ==
    [][ ResumeFromSnapshot =>
            /\ to_visit' = state_file.to_visit
            /\ visited' = SeqToSet(state_file.visited)
            /\ page_count' = state_file.page_count ]_vars

\* the crawl() invocation at hand is a further call on the same crawler, or a
\* resumed crawl of a new crawler that has a snapshot
LaterInvocation == calls >= 2 \/ (calls = 1 /\ resume /\ state_file.exists)
\* url has a 'success' row written by an earlier crawl() invocation
MarkedVisitedBefore(url) ==
    \E i \in 1..Len(metadata) :
        /\ metadata[i].url = url
        /\ metadata[i].status = "success"
        /\ metadata[i].scraped_at < crawls

\* C9: no later crawl invocation (a second crawl() on the same crawler, or a
\* resumed crawl of a new crawler restoring the last snapshot) issues a request
\* for a URL that an earlier invocation logged as 'success'.
C9_NoRefetchAcrossRuns ==
    [][ (Len(io') > Len(io) /\ LaterInvocation) => ~MarkedVisitedBefore(current_url) ]_vars

\* C10: a running crawl loop eventually ends, and when crawl() has returned the
\* queue is empty or the ceiling is reached and the snapshot on disk is the
\* final frontier.
C10_Terminates ==
    /\ Running ~> (pc \in {"done", "aborted"})
    /\ [](pc = "done" =>
            /\ to_visit = <<>> \/ Cardinality(visited) >= max_pages
            /\ state_file = Snapshot(to_visit, visited, page_count))

\* C10 witness: a crawl that met failed and successful fetches has returned and
\* its final snapshot is on disk
C10_Witness ==
    /\ pc = "done"
    /\ state_file = Snapshot(to_visit, visited, page_count)
    /\ \E i, j \in RowsOfRun :
          metadata[i].status = "failed" /\ metadata[j].status = "success"

\* C11: a crawl invoked with max_pages = k takes no further URL off the queue
\* once k pages are fetched, so it never fetches more than k pages.
C11_CeilingRespected ==
    [][ (pc = "loop" /\ pc' \in {"fetching", "fetched"})
            => Cardinality(visited) < MaxPagesArg ]_vars

(***************************************************************************)
(* Properties of the indexer and the search engine.                        *)
(***************************************************************************)
RECURSIVE SumOver(_, _)
\* the sum of f over the set S
SumOver(f, S) ==
    IF S = {} THEN 0
    ELSE LET x == CHOOSE y \in S : TRUE IN f[x] + SumOver(f, S \ {x})

\* the frequency postings holds for doc_id under term, 0 when it holds none
Posting(term, doc_id) ==
    IF HasDoc(index[term], doc_id) THEN TfOf(index[term], doc_id) ELSE 0
PostingsOf(doc_id) ==
    SumOver([t \in DOMAIN index |-> Posting(t, doc_id)], DOMAIN index)

\* C12: after any sequence of add_document calls, also one that adds a docId
\* again with another text, the length recorded for each document is the sum
\* of its frequencies over all terms of postings.
C12_Additivity ==
    \A d \in DOMAIN doc_lengths : doc_lengths[d] = PostingsOf(d)

\* C13: after any sequence of add_document calls and load_from_tsv rows, every
\* docId listed under a term of postings is a key of the record store.
C13_PostingsHaveRecords ==
    \A t \in DOMAIN index : \A i \in 1..Len(index[t]) : index[t][i].doc \in DOMAIN drugs

\* the file on disk is what save_index writes from the indexer as it is now
SavedAsIs == index_file = ToJson(Indexer)

SearchReturned == last.op = "search" /\ last.raised = "none"
\* the documents of the returned list
ReturnedDocs == {last.results[i].setid : i \in 1..Len(last.results)}
\* the terms of the tokenized query that postings has as keys
IndexedQueryTerms ==
    {last.query_terms[i] : i \in {j \in 1..Len(last.query_terms) : last.query_terms[j] \in DOMAIN index}}
\* doc_id is listed under every query term that the index has
CarriesAll(doc_id) == \A t \in IndexedQueryTerms : HasDoc(index[t], doc_id)
\* the documents that pass the conjunctive filter of the query
Matching == IF IndexedQueryTerms = {} THEN {} ELSE {d \in DOMAIN doc_lengths : CarriesAll(d)}
HasRepeatedTerm ==
    \E i, j \in 1..Len(last.query_terms) : i # j /\ last.query_terms[i] = last.query_terms[j]

\* C15: under every IDF model, every document search returns carries every
\* query term that the index has, and a document that carries them all is
\* left out only by the cut at top_k; the same when a term occurs more than
\* once in the tokenized query.
C15_Conjunctive ==
    SearchReturned =>
        /\ ReturnedDocs \subseteq Matching
        /\ Len(last.results) < last.top_k => ReturnedDocs = Matching

\* C15 witness: a query whose tokens repeat a term has returned one document
\* and left out another one that lacks the term
C15_Witness ==
    /\ SearchReturned
    /\ HasRepeatedTerm
    /\ last.results # <<>>
    /\ Len(last.results) < last.top_k
    /\ DOMAIN doc_lengths \ ReturnedDocs # {}

\* the pieces a query can be extended by
QueryPieces == {"relief", "found"}
\* the pieces all of whose tokens are missing from the vocabulary of the index
AbsentPieces ==
    {p \in QueryPieces :
        LET terms == Tokenize(<<p>>)
        IN  terms # <<>> /\ \A i \in 1..Len(terms) : terms[i] \notin DOMAIN index}
\* what search returns for the last query once the pieces of text are put around it
SameWith(before, after) ==
    LET call == SearchCall(Indexer, before \o last.query \o after, last.top_k, last.method)
    IN  call.raised = last.raised /\ call.results = last.results
OnlyAbsentTerms ==
    /\ last.query_terms # <<>>
    /\ \A i \in 1..Len(last.query_terms) : last.query_terms[i] \notin DOMAIN index

\* C16: a query term that is no key of postings counts neither for the score
\* nor for the number of terms a document must match: the query with such a
\* term added returns the same documents with the same scores, and a query of
\* such terms only returns the empty list and raises nothing.
C16_AbsentTermsIgnored ==
    last.op = "search" =>
        /\ \A p \in AbsentPieces : SameWith(<<>>, <<p>>) /\ SameWith(<<p>>, <<>>)
        /\ OnlyAbsentTerms => (last.raised = "none" /\ last.results = <<>>)

\* C16 witness: a query with a term the index has and a term it lacks has
\* returned documents
C16_Witness ==
    /\ SearchReturned
    /\ last.results # <<>>
    /\ \E i \in 1..Len(last.query_terms) : last.query_terms[i] \notin DOMAIN index

\* the score the last query gives doc_id: tf x idf summed over the occurrences
\* of indexed terms in the tokenized query
ScoreOf(doc_id) ==
    LET I == {i \in 1..Len(last.query_terms) : last.query_terms[i] \in DOMAIN index}
    IN  SumOver([i \in I |-> Posting(last.query_terms[i], doc_id)
                             * Idf(last.method, index, doc_count, last.query_terms[i])], I)

\* C17: search returns at most top_k results, each with its accumulated score,
\* ordered from the highest score to the lowest, and no document that passes
\* the filter and is left out scores strictly higher than a returned one.
C17_TopKRanked ==
    SearchReturned =>
        /\ Len(last.results) <= last.top_k
        /\ \A i \in 1..Len(last.results) :
              last.results[i].score = ScoreOf(last.results[i].setid)
        /\ \A i, j \in 1..Len(last.results) :
              i < j => last.results[i].score >= last.results[j].score
        /\ \A d \in Matching \ ReturnedDocs : \A i \in 1..Len(last.results) :
              ScoreOf(d) <= last.results[i].score

\* C17 witness: the cut at top_k left out a matching document whose score is
\* strictly lower than the returned one
C17_Witness ==
    /\ SearchReturned
    /\ Len(last.results) = last.top_k
    /\ \E d \in Matching \ ReturnedDocs : ScoreOf(d) < last.results[1].score

\* the names search dispatches on, lines 52-59
SupportedMethods == {"standard", "smooth", "probabilistic", "bm25"}

\* C18: a search under a model name that is not supported returns the very
\* list (documents, order, scores) that the same query returns under standard.
C18_UnknownIsStandard ==
    (last.op = "search" /\ last.method \notin SupportedMethods) =>
        LET call == SearchCall(Indexer, last.query, last.top_k, "standard")
        IN  call.raised = last.raised /\ call.results = last.results

\* C18 witness: a search under an unsupported name has returned a document
\* with a score that is not zero
C18_Witness ==
    /\ SearchReturned
    /\ last.method \notin SupportedMethods
    /\ last.results # <<>>
    /\ last.results[1].score # 0

\* C19: search only reads the index: a search call, also one whose query has
\* terms the index lacks, leaves postings, document lengths, document count
\* and record store as they were and creates no term key in postings.
C19_SearchReadsOnly ==
    [][ last'.op = "search"
            => /\ index' = index
               /\ DOMAIN index' = DOMAIN index
               /\ doc_lengths' = doc_lengths
               /\ doc_count' = doc_count
               /\ drugs' = drugs ]_allvars

\* C19 witness: a search whose query has a term the index lacks has run on an
\* index that holds postings and records
C19_Witness ==
    /\ last.op = "search"
    /\ DOMAIN index # {}
    /\ DOMAIN drugs # {}
    /\ \E i \in 1..Len(last.query_terms) : last.query_terms[i] \notin DOMAIN index
    /\ \E i \in 1..Len(last.query_terms) : last.query_terms[i] \in DOMAIN index

\* token has a character of the set S
Contains(token, S) == \E i \in 1..Len(Chars(token)) : Chars(token)[i] \in S
\* the rule for keeping a candidate token
KeepRule(token) ==
    \/ Contains(token, Digit \cup {"-", "%"})
    \/ (token \notin ALL_STOPWORDS /\ Len(Chars(token)) > 2)
\* the tokenizer has extracted candidate tokens from the last query
Extracted == last.op = "search" /\ last.query # <<>> /\ last.query # NotFound
Emitted(token) == \E i \in 1..Len(last.query_terms) : last.query_terms[i] = token

\* C20: of the candidate tokens extracted from a text, the tokenizer emits
\* exactly those that contain a digit, a hyphen or a percent sign, or that are
\* no stop word and longer than two characters, in the order extracted: "the"
\* is never emitted, a candidate "2mg" always is.
C20_KeepRule ==
    Extracted =>
        /\ last.query_terms = SelectSeq(Candidates(last.query), KeepRule)
        /\ ~Emitted("the")
        /\ InSeq("2mg", Candidates(last.query)) => Emitted("2mg")

\* C20 witness: the tokenizer has dropped stop words from a query and has
\* emitted a dosage and a plain word
C20_Witness ==
    /\ Extracted
    /\ InSeq("the", Candidates(last.query))
    /\ InSeq("drug", Candidates(last.query))
    /\ Emitted("2mg")
    /\ Emitted("pain")

\* the snapshot on disk after the step holds the frontier as it is after the step
SnapshotOfTheMoment ==
    /\ state_file'.exists
    /\ state_file'.to_visit = to_visit'
    /\ SeqToSet(state_file'.visited) = visited'
    /\ state_file'.page_count = page_count'
\* the step saved a page
PageSaved == pc = "fetched" /\ pc' = "loop" /\ page_count' = page_count + 1

WrittenForOther(path, url) ==
    \E i \in RowsOfRun :
        /\ metadata[i].status = "success"
        /\ metadata[i].url # url
        /\ ~Falsy(site[metadata[i].url])
        /\ metadata[i].saved_path = path

\* C22: within one crawl, saving the page of a URL never writes over the file
\* that was written for another URL fetched earlier: two distinct URLs never
\* get the same batch directory and file name.
C22_BlobsImmutable ==
    [][ PageSaved => ~WrittenForOther(GetHtmlPath(current_url), current_url) ]_vars

\* C23: in a crawl that is not resumed, at the start of every loop iteration
\* and at loop exit, page_count is the number of URLs in visited.
C23_CountsAgree ==
    (FreshCrawl /\ pc \in {"loop", "done"}) => page_count = Cardinality(visited)

\* C24: after any sequence of add_document calls, also when a docId is added
\* more than once, doc_count (the N of every IDF formula) is the number of
\* distinct documents of the index, that is, of keys of doc_lengths.
C24_DocCountDistinct ==
    doc_count = Cardinality(DOMAIN doc_lengths)

====
